---- MODULE Spec2Model ----
(***************************************************************************)
(* Model of the quantum-inspired state simulation and feature extraction   *)
(* engine of src/api/quantum_algorithms.py (QuantumCircuit and             *)
(* QuantumProcessor), of the padding step of                               *)
(* src/api/quantum_intelligence.py (QuantumIntelligenceAPI.process_signal) *)
(* of the token gate and of get_api of src/api/apiapp.py, of the request   *)
(* log of src/api/monitoring.py and of the layered encryption of           *)
(* src/api/security.py.                                                    *)
(*                                                                         *)
(* Specifications: Spec and SpecArgs (calls on one circuit), SpecFaults    *)
(* (a caller that stops at the first failing call), SpecShort and SpecSelf *)
(* (a short run of calls), SpecDepth (the same calls on two circuits of    *)
(* different depth), SpecSignal and SpecNormalise (the processor), SpecApi *)
(* (the API's process_signal), SpecAuth (the HTTP endpoints), SpecRace and *)
(* SpecWork (two threads on one circuit, on one processor), SpecSingleton  *)
(* (two threads in get_api), SpecCrypto (encrypt, then decrypt).           *)
(*                                                                         *)
(* Amplitudes are exact numbers of the ring Z[i, 1/sqrt(2)], which holds   *)
(* every entry of the gates X, Y, Z and H: the tuple <<a, b, c, d, k>>     *)
(* stands for ((a + b*sqrt2) + i*(c + d*sqrt2)) / 2^k and is kept in       *)
(* lowest terms.  Floating-point rounding is not modelled.                 *)
(***************************************************************************)
EXTENDS Integers, Sequences, FiniteSets, TLC

VARIABLES
    n_qubits,   \* QuantumCircuit.n_qubits
    state,      \* QuantumCircuit.state: 0..2^n-1 -> amplitude
    last,       \* the latest call on the circuit, its arguments and whether it raised
    prev,       \* QuantumCircuit.state as it was when the latest call started
    nbad,       \* number of calls made so far that broke a precondition of section 4.1
    entry,      \* "none" while signal_data waits to be processed, then the
                \* process_signal that processed it: "api" or "processor"
    signal_data,       \* the one-dimensional input of the current signal call
    handed,            \* the signal QuantumProcessor.process_signal received in that call
    features,          \* what QuantumProcessor.process_signal returned or raised in that call
    api_raised,        \* whether that QuantumIntelligenceAPI.process_signal call raised
    metrics_requests,  \* QuantumIntelligenceAPI.metrics['requests']
    monitor_requests,  \* QuantumMonitor.requests
    monitor_errors,    \* QuantumMonitor.errors
    normalised,        \* a vector and what _prepare_quantum_state made of it, call after call
    clock,             \* the server's time (datetime.utcnow()), in hours
    nticks,            \* steps of the clock so far
    nrequests,         \* HTTP requests served so far
    issued,            \* the tokens /api/auth has returned
    hits,              \* flask-limiter's count per endpoint in the current minute
    response,          \* the latest HTTP request and what it got
    calls,             \* per thread: its call on the shared circuit and how far it is
    trace,             \* the reads and writes of self.state by those calls, in order
    workers,           \* per thread: its process_signal call, how far it is, its result
    frames,            \* the local variables of the process_signal calls, per frame
    depth,             \* QuantumCircuit.depth
    twin,              \* a second QuantumCircuit of the same n_qubits: its depth and state
    ncalls,            \* calls made so far in a run of bounded length
    quantum_api,       \* the global of apiapp.py: 0 for None, or the instance it holds
    built,             \* QuantumIntelligenceAPI instances constructed so far (1..built)
    getters,           \* per thread: its get_api call, how far it is, what it got
    sealed,            \* data passed to encrypt_multi_layer and what the call returned
    opened             \* what decrypt_multi_layer made of that

circuit_vars == <<n_qubits, state, last, prev, nbad>>
signal_vars == <<entry, signal_data, handed, features, api_raised,
                 metrics_requests, monitor_requests, monitor_errors>>
auth_vars == <<clock, nticks, nrequests, issued, hits, response>>
race_vars == <<calls, trace>>
work_vars == <<workers, frames>>
twin_vars == <<depth, twin, ncalls>>
singleton_vars == <<quantum_api, built, getters>>
crypto_vars == <<sealed, opened>>
rest_vars == <<twin_vars, singleton_vars, crypto_vars>>
service_vars == <<normalised, auth_vars, race_vars, work_vars, rest_vars>>
vars == <<circuit_vars, signal_vars, service_vars>>

\* ------------------------------------------------------------------ bounds
MaxQubits == 2
MaxBadCalls == 1
\* longest signal passed straight to QuantumProcessor.process_signal (at most 5:
\* the power spectrum is exact for lengths up to 6)
MaxSignalLen == 4
\* Config.INPUT_SHAPE[0], 128 in the source, scaled down
RequiredLength == 2
\* QuantumIntelligenceAPI.process_signal calls in one run
MaxApiCalls == 2
\* _prepare_quantum_state calls made on one vector, each on the result of the last
MaxPasses == 2
\* longest signal of the concurrent process_signal calls
MaxConcurrentLen == 2
\* steps of the server's clock in one run
MaxTicks == 2
\* HTTP requests in one run
MaxRequests == 3
\* calls in a run of bounded length (on two circuits that are compared, on one)
MaxPairCalls == 3
\* largest depth a circuit is constructed with
MaxDepth == 2
\* get_api calls of one thread
MaxGetApiCalls == 2
\* bits of a byte, 8 in the source, scaled down
BitsPerByte == 2
\* longest byte string passed to encrypt_multi_layer
MaxDataLen == 1
\* entropy bits of a signature, 256 in the source, scaled down
EntropyBits == 2
\* requests an endpoint admits per minute, 10 in the source ("10 per minute"),
\* scaled down
RateLimit == 1

\* ------------------------------------------------- exact complex arithmetic
RECURSIVE Pow2(_)
Pow2(e) == IF e = 0 THEN 1 ELSE 2 * Pow2(e - 1)

IsEven(x) == x % 2 = 0

RECURSIVE CReduce(_)
CReduce(z) ==
    IF z[1] = 0 /\ z[2] = 0 /\ z[3] = 0 /\ z[4] = 0 THEN <<0, 0, 0, 0, 0>>
    ELSE IF z[5] > 0 /\ IsEven(z[1]) /\ IsEven(z[2]) /\ IsEven(z[3]) /\ IsEven(z[4])
         THEN CReduce(<<z[1] \div 2, z[2] \div 2, z[3] \div 2, z[4] \div 2, z[5] - 1>>)
         ELSE z

CZero == <<0, 0, 0, 0, 0>>
COne == <<1, 0, 0, 0, 0>>
CMinusOne == <<-1, 0, 0, 0, 0>>
CI == <<0, 0, 1, 0, 0>>
CMinusI == <<0, 0, -1, 0, 0>>
CInvSqrt2 == <<0, 1, 0, 0, 1>>
CMinusInvSqrt2 == <<0, -1, 0, 0, 1>>

CAdd(x, y) ==
    LET k == IF x[5] > y[5] THEN x[5] ELSE y[5]
        fx == Pow2(k - x[5])
        fy == Pow2(k - y[5])
    IN  CReduce(<<fx * x[1] + fy * y[1], fx * x[2] + fy * y[2],
                  fx * x[3] + fy * y[3], fx * x[4] + fy * y[4], k>>)

\* (a + b s + i(c + d s)) * (e + f s + i(g + h s)),  s*s = 2
CMul(x, y) ==
    LET a == x[1]  b == x[2]  c == x[3]  d == x[4]
        e == y[1]  f == y[2]  g == y[3]  h == y[4]
    IN  CReduce(<<a * e + 2 * b * f - c * g - 2 * d * h,
                  a * f + b * e - c * h - d * g,
                  a * g + 2 * b * h + c * e + 2 * d * f,
                  a * h + b * g + c * f + d * e,
                  x[5] + y[5]>>)

CConj(x) == <<x[1], x[2], -x[3], -x[4], x[5]>>

\* ------------------------------------------------------------ QuantumCircuit
Dim(n) == Pow2(n)

\* the digits as they would be with the least significant one first
i_bin_reversed(i, n) == [k \in 0..(n - 1) |-> (i \div Pow2(k)) % 2]

\* format(i, '0<n>b'): the n binary digits of i, most significant first,
\* as a 0-indexed string
i_bin(i, n) == [k \in 0..(n - 1) |-> (i \div Pow2(n - 1 - k)) % 2]

\* int(''.join(bits), 2)
RECURSIVE ParseBin(_, _, _)
ParseBin(bits, n, k) ==
    IF k = n THEN 0 ELSE bits[k] * Pow2(n - 1 - k) + ParseBin(bits, n, k + 1)

\* Python sequence indexing s[idx] on a sequence of length n: the position
\* read, or -1 where Python raises IndexError
PyIndex(n, idx) ==
    IF idx >= 0 /\ idx < n THEN idx
    ELSE IF idx < 0 /\ idx >= -n THEN n + idx
    ELSE -1

\* _initialize_gates
X == <<<<CZero, COne>>, <<COne, CZero>>>>
Y == <<<<CZero, CMinusI>>, <<CI, CZero>>>>
Z == <<<<COne, CZero>>, <<CZero, CMinusOne>>>>
\* H as it would be without the division by sqrt(2)
H_unnormalised == <<<<COne, COne>>, <<COne, CMinusOne>>>>
H == <<<<CInvSqrt2, CInvSqrt2>>, <<CInvSqrt2, CMinusInvSqrt2>>>>

GateNames == {"X", "Y", "Z", "H"}
Gate(name) == CASE name = "X" -> X [] name = "Y" -> Y [] name = "Z" -> Z [] name = "H" -> H

\* gate[r, c] with 0-based r, c
GateEntry(gate, r, c) == gate[r + 1][c + 1]

\* matrices of another shape a caller may pass as the gate: the 4x4 CNOT
\* matrix, the 4x4 np.kron(X, X), and a 1x1 matrix
CNOT ==
    <<<<COne, CZero, CZero, CZero>>, <<CZero, COne, CZero, CZero>>,
      <<CZero, CZero, CZero, COne>>, <<CZero, CZero, COne, CZero>>>>
KronXX ==
    <<<<CZero, CZero, CZero, COne>>, <<CZero, CZero, COne, CZero>>,
      <<CZero, COne, CZero, CZero>>, <<COne, CZero, CZero, CZero>>>>
Scalar == <<<<COne>>>>
\* the 1x1 phase np.array([[1j]])
Phase == <<<<CI>>>>
OtherShapes == {"CNOT", "KronXX", "Scalar", "Phase"}
ShapedGate(name) ==
    CASE name = "CNOT" -> CNOT [] name = "KronXX" -> KronXX [] name = "Scalar" -> Scalar
      [] name = "Phase" -> Phase

\* the matrix a call names, of whatever shape
AnyGate(name) == IF name \in GateNames THEN Gate(name) ELSE ShapedGate(name)

\* gate[r, c] raises IndexError for some r, c in {0, 1}: every one of the four
\* is read when target is in range
GateShapeRaises(gate) == Len(gate) < 2 \/ Len(gate[1]) < 2

\* np.eye(dim, dtype=complex)
eye(dim) == [i \in 0..(dim - 1) |-> [j \in 0..(dim - 1) |-> IF i = j THEN COne ELSE CZero]]

\* the condition of line 30: all(i_bin[k] == j_bin[k] for k in range(n) if k != target)
\* the condition as it would be without "if k != target"
AgreeEveryBit(n, target, i, j) ==
    \A k \in 0..(n - 1) : i_bin(i, n)[k] = i_bin(j, n)[k]

\* the condition as it would be with "if k > target"
AgreeLaterBits(n, target, i, j) ==
    \A k \in 0..(n - 1) : (k > target) => i_bin(i, n)[k] = i_bin(j, n)[k]

AgreeOtherBits(n, target, i, j) ==
    \A k \in 0..(n - 1) : (k # target) => i_bin(i, n)[k] = i_bin(j, n)[k]

\* apply_gate raises IndexError at i_bin[target] (first taken at i = j = 0)
ApplyGateRaises(n, target) == PyIndex(n, target) = -1

\* gate_full as it would be with "+=" in place of "=" on line 31
apply_gate_full_accumulate(n, gate, target) ==
    LET t == PyIndex(n, target)
    IN  [i \in 0..(Dim(n) - 1) |-> [j \in 0..(Dim(n) - 1) |->
            IF AgreeOtherBits(n, target, i, j)
            THEN CAdd(eye(Dim(n))[i][j], GateEntry(gate, i_bin(i, n)[t], i_bin(j, n)[t]))
            ELSE eye(Dim(n))[i][j]]]

\* the operator gate_full built by the loops of apply_gate (when it does not raise)
apply_gate_full(n, gate, target) ==
    LET t == PyIndex(n, target)
    IN  [i \in 0..(Dim(n) - 1) |-> [j \in 0..(Dim(n) - 1) |->
            IF AgreeOtherBits(n, target, i, j)
            THEN GateEntry(gate, i_bin(i, n)[t], i_bin(j, n)[t])
            ELSE eye(Dim(n))[i][j]]]

RECURSIVE DotFrom(_, _, _, _)
DotFrom(row, vec, j, dim) ==
    IF j = dim THEN CZero
    ELSE LET r == row[j]
             v == vec[j]
         IN  IF v = CZero \/ r = CZero THEN DotFrom(row, vec, j + 1, dim)
             ELSE CAdd(CMul(r, v), DotFrom(row, vec, j + 1, dim))

\* gate_full @ self.state (a product with an exact zero adds nothing to the sum)
MatVec(m, vec, dim) == [i \in 0..(dim - 1) |-> DotFrom(m[i], vec, 0, dim)]

RECURSIVE NormSqFrom(_, _, _)
NormSqFrom(vec, j, dim) ==
    IF j = dim THEN CZero
    ELSE CAdd(CMul(vec[j], CConj(vec[j])), NormSqFrom(vec, j + 1, dim))

\* sum of squared magnitudes of a state vector
NormSq(vec, n) == NormSqFrom(vec, 0, Dim(n))

\* ---------------------------------------------------------------- apply_gate
\* the loops of lines 26-31 from position p = i * dim + j on, on the matrix m
\* built so far: they end with gate_full complete, or raise IndexError at the
\* first read of i_bin[target] or gate[r, c] that is out of range, with the
\* entries assigned until then
RECURSIVE apply_gate_loop(_, _, _, _, _)
apply_gate_loop(m, p, n, gate, target) ==
    LET i == p \div Dim(n)
        j == p % Dim(n)
        t == PyIndex(n, target)
    IN  IF p = Dim(n) * Dim(n) THEN [gate_full |-> m, raised |-> FALSE]
        ELSE IF ~AgreeOtherBits(n, target, i, j)
             THEN apply_gate_loop(m, p + 1, n, gate, target)
             ELSE IF t = -1 THEN [gate_full |-> m, raised |-> TRUE]
             ELSE IF i_bin(i, n)[t] >= Len(gate) \/ i_bin(j, n)[t] >= Len(gate[1])
                  THEN [gate_full |-> m, raised |-> TRUE]
                  ELSE apply_gate_loop(
                           [m EXCEPT ![i][j] = GateEntry(gate, i_bin(i, n)[t], i_bin(j, n)[t])],
                           p + 1, n, gate, target)

\* self.state as it would be if line 33 stood in a finally clause: the
\* operator built so far is applied also when the loops raise
apply_gate_finally(n, st, gate, target) ==
    MatVec(apply_gate_loop(eye(Dim(n)), 0, n, gate, target).gate_full, st, Dim(n))

\* self.state after apply_gate(gate, target) returns or raises
apply_gate(n, st, gate, target) ==
    IF ApplyGateRaises(n, target) \/ GateShapeRaises(gate) THEN st
    ELSE MatVec(apply_gate_full(n, gate, target), st, Dim(n))

\* ----------------------------------------------------------- entangle_qubits
\* the partner index as it would be with the control bit flipped
FlipControl(i, n, target) ==
    LET bits == i_bin(i, n)
        c == CHOOSE k \in 0..(n - 1) : k # PyIndex(n, target)
        i_bin_flipped == [bits EXCEPT ![c] = IF bits[c] = 0 THEN 1 ELSE 0]
    IN  ParseBin(i_bin_flipped, n, 0)

\* i_bin_flipped joined and parsed: i with the bit at position target flipped
FlipTarget(i, n, target) ==
    LET t == PyIndex(n, target)
        bits == i_bin(i, n)
        i_bin_flipped == [bits EXCEPT ![t] = IF bits[t] = 0 THEN 1 ELSE 0]
    IN  ParseBin(i_bin_flipped, n, 0)

\* the assignments as they would be without clearing the diagonal
EntangleAssignNoClear(m, i, j) ==
    [[m EXCEPT ![i][j] = COne] EXCEPT ![j][i] = COne]

\* lines 47-48: the four assignments of one loop iteration, in order
EntangleAssign(m, i, j) ==
    [[[[m EXCEPT ![i][i] = CZero] EXCEPT ![i][j] = COne]
          EXCEPT ![j][j] = CZero] EXCEPT ![j][i] = COne]

\* the loop of lines 41-48 from iteration i on, on the matrix m built so far
RECURSIVE EntangleLoop(_, _, _, _, _)
EntangleLoop(m, i, n, control, target) ==
    IF i = Dim(n) THEN m
    ELSE IF i_bin(i, n)[PyIndex(n, control)] = 1
         THEN EntangleLoop(EntangleAssign(m, i, FlipTarget(i, n, target)),
                           i + 1, n, control, target)
         ELSE EntangleLoop(m, i + 1, n, control, target)

entangle_gate_full(n, control, target) ==
    EntangleLoop(eye(Dim(n)), 0, n, control, target)

\* the condition as it would be with a check that control and target differ
EntangleRaisesOnSame(n, control, target) ==
    PyIndex(n, control) = -1 \/ PyIndex(n, target) = -1 \/ control = target

\* IndexError at i_bin[control] (i = 0) or at i_bin[target] (first i whose
\* control bit is 1)
EntangleRaises(n, control, target) ==
    PyIndex(n, control) = -1 \/ PyIndex(n, target) = -1

\* self.state after entangle_qubits(control, target) returns or raises
entangle_qubits(n, st, control, target) ==
    IF EntangleRaises(n, control, target) THEN st
    ELSE MatVec(entangle_gate_full(n, control, target), st, Dim(n))

\* ------------------------------------------------------------ QuantumProcessor
\* Sample values of the modelled signals
Samples == {-1, 0, 1}

\* Sample values of the inputs of QuantumIntelligenceAPI.process_signal
ApiSamples == {0, 1}

\* the one-dimensional signals with lo..hi samples drawn from S
SignalsOfLen(S, lo, hi) == UNION {[1..k -> S] : k \in lo..hi}

RECURSIVE SumSq(_, _)
SumSq(x, i) == IF i > Len(x) THEN 0 ELSE x[i] * x[i] + SumSq(x, i + 1)

\* A real vector is kept as integer samples v over a common positive divisor
\* den: the vector v / den.  A divisor is a polynomial in epsilon = 1e-10,
\* [low |-> p, c |-> <<c_p, c_p+1, ...>>] for c_p*eps^p + c_p+1*eps^(p+1) + ...,
\* whose coefficients <<a, b>> stand for a + b*sqrt(sumsq of v).
DOne == [low |-> 0, c |-> <<<<1, 0>>>>]

\* 1 / epsilon: the divisor of a vector whose samples are multiples of 1e-10
DInvEps == [low |-> -1, c |-> <<<<1, 0>>>>]

\* np.linalg.norm(signal) of v / den, times den: sqrt(sum(v^2))
Norm(v) == IF SumSq(v, 1) = 0 THEN <<0, 0>> ELSE <<0, 1>>

\* the literal as it would be if it were written 1 (epsilon to the power 0)
EpsilonAsOne == [power |-> 0]

\* the literal 1e-10, as a power of epsilon
Epsilon == [power |-> 1]

\* d * 1e-10
TimesEpsilon(d) == [low |-> d.low + Epsilon.power, c |-> d.c]

\* the divisor as it would be without the guard: np.linalg.norm(signal)
DivisorUnguarded(v, d) == [low |-> 0, c |-> <<Norm(v)>>]

\* (np.linalg.norm(signal) + 1e-10) for the vector v / d, times d:
\* sqrt(sum(v^2)) + 1e-10 * d
Divisor(v, d) ==
    LET e == TimesEpsilon(d)
    IN  IF e.low = 0
        THEN [low |-> 0, c |-> <<<<e.c[1][1] + Norm(v)[1], e.c[1][2] + Norm(v)[2]>>>>
                                  \o Tail(e.c)]
        ELSE [low |-> 0, c |-> <<Norm(v)>> \o [i \in 1..(e.low - 1) |-> <<0, 0>>] \o e.c]

\* a one-dimensional np.ndarray holding the samples of signal
AsArray(signal) == [v |-> signal, den |-> DOne]

\* signal / (np.linalg.norm(signal) + 1e-10) of the vector x.v / x.den: the
\* samples v, the sum of their squares and the new divisor
prepare_quantum_state(x) ==
    [v |-> x.v, sumsq |-> SumSq(x.v, 1), den |-> Divisor(x.v, x.den)]

\* a + b*sqrt(S) = 0
RootIsZero(c, S) ==
    \/ c[1] = 0 /\ (c[2] = 0 \/ S = 0)
    \/ c[2] # 0 /\ c[1] * c[2] < 0 /\ c[1] * c[1] = c[2] * c[2] * S

\* a divisor that is 0.0
DenIsZero(d, S) == \A i \in 1..Len(d.c) : RootIsZero(d.c[i], S)

\* element i (from 1) of the vector sn as a Python float: 0.0 / 0.0 is nan
SampleOf(sn, i) ==
    IF DenIsZero(sn.den, sn.sumsq) /\ sn.v[i] = 0 THEN [kind |-> "nan"]
    ELSE [kind |-> "quotient", num |-> sn.v[i], den |-> sn.den]

\* Real numbers a + b*sqrt(5) as <<a, b>>: they hold 4*cos(2*pi*m/N) for N <= 6
RAdd(x, y) == <<x[1] + y[1], x[2] + y[2]>>
RScale(c, x) == <<c * x[1], c * x[2]>>
RZero == <<0, 0>>
RSign(x) ==
    LET a == x[1]
        b == x[2]
    IN  IF a = 0 /\ b = 0 THEN 0
        ELSE IF a >= 0 /\ b >= 0 THEN 1
        ELSE IF a <= 0 /\ b <= 0 THEN -1
        ELSE IF a > 0 THEN (IF a * a > 5 * b * b THEN 1 ELSE -1)
        ELSE (IF 5 * b * b > a * a THEN 1 ELSE -1)
RLess(x, y) == RSign(RAdd(y, RScale(-1, x))) = 1

\* 4 * cos(2*pi*m/N), 0 <= m < N <= 6
FourCos(N, m) ==
    CASE N = 1 -> <<4, 0>>
      [] N = 2 -> IF m = 0 THEN <<4, 0>> ELSE <<-4, 0>>
      [] N = 3 -> IF m = 0 THEN <<4, 0>> ELSE <<-2, 0>>
      [] N = 4 -> <<<<4, 0>>, <<0, 0>>, <<-4, 0>>, <<0, 0>>>>[m + 1]
      [] N = 5 -> <<<<4, 0>>, <<-1, 1>>, <<-1, -1>>, <<-1, -1>>, <<-1, 1>>>>[m + 1]
      [] N = 6 -> <<<<4, 0>>, <<2, 0>>, <<-2, 0>>, <<-4, 0>>, <<-2, 0>>, <<2, 0>>>>[m + 1]

\* np.abs(np.fft.fft(x))**2 at bin k, times 4:
\* |sum_t x[t] exp(-2*pi*i*k*t/N)|^2 = sum_{t,s} x[t] x[s] cos(2*pi*k*(t-s)/N)
RECURSIVE PowerFrom(_, _, _)
PowerFrom(x, k, p) ==
    LET N == Len(x)
        t == p \div N
        u == p % N
    IN  IF p = N * N THEN RZero
        ELSE RAdd(RScale(x[t + 1] * x[u + 1], FourCos(N, (k * (t - u)) % N)),
                  PowerFrom(x, k, p + 1))

RECURSIVE PowerBins(_, _)
PowerBins(x, k) ==
    IF k = Len(x) THEN <<>> ELSE <<PowerFrom(x, k, 0)>> \o PowerBins(x, k + 1)

\* the power spectrum of the normalised signal sn: bin k is entry k + 1 and
\* stands for power[k + 1] / (4 * (sqrt(sumsq) + 1e-10)^2)
PowerSpectrum(sn) == PowerBins(sn.v, 0)

RECURSIVE RSumFrom(_, _)
RSumFrom(f, i) == IF i > Len(f) THEN RZero ELSE RAdd(f[i], RSumFrom(f, i + 1))

\* np.max of a sequence of at least one value
RMax(f) == f[CHOOSE i \in 1..Len(f) : \A j \in 1..Len(f) : ~RLess(f[i], f[j])]

\* np.argmax as it would be if the last of several largest values won
ArgMaxLast(f) ==
    (CHOOSE i \in 1..Len(f) :
        /\ \A j \in 1..Len(f) : ~RLess(f[i], f[j])
        /\ \A j \in (i + 1)..Len(f) : RLess(f[j], f[i])) - 1

\* np.argmax of a sequence of at least one value: the first (0-based) index
\* holding the largest value
ArgMax(f) ==
    (CHOOSE i \in 1..Len(f) :
        /\ \A j \in 1..Len(f) : ~RLess(f[i], f[j])
        /\ \A j \in 1..(i - 1) : RLess(f[j], f[i])) - 1

\* a Python float: not-a-number, or the quotient of two reals
NaN == [kind |-> "nan"]
Quotient(num, den) == [kind |-> "quotient", num |-> num, den |-> den]

\* numpy float division x / y of two values that carry the same positive scale
FloatDiv(x, y) == IF y = RZero /\ x = RZero THEN NaN ELSE Quotient(x, y)

\* _detect_periodicity on a signal of at least one sample:
\* float(np.max(power) / np.sum(power))
detect_periodicity(sn) ==
    LET power == PowerSpectrum(sn)
    IN  FloatDiv(RMax(power), RSumFrom(power, 1))

RECURSIVE SumFrom(_, _)
SumFrom(x, i) == IF i > Len(x) THEN 0 ELSE x[i] + SumFrom(x, i + 1)

\* _estimate_noise: np.std(signal) = sqrt(N*sum(x^2) - sum(x)^2) / N of the
\* normalised signal; the number under the root, for the unscaled samples
estimate_noise(sn) ==
    LET N == Len(sn.v)
    IN  [radicand |-> N * sn.sumsq - SumFrom(sn.v, 1) * SumFrom(sn.v, 1), n |-> N]

RECURSIVE AbsDiffFrom(_, _)
AbsDiffFrom(x, i) ==
    IF i >= Len(x) THEN 0
    ELSE (IF x[i + 1] >= x[i] THEN x[i + 1] - x[i] ELSE x[i] - x[i + 1])
         + AbsDiffFrom(x, i + 1)

\* _quantum_complexity: np.sum(np.abs(np.diff(signal))), for the unscaled samples
quantum_complexity(sn) == AbsDiffFrom(sn.v, 1)

\* _quantum_pattern_recognition
quantum_pattern_recognition(sn) ==
    [periodic |-> detect_periodicity(sn),
     noise_level |-> estimate_noise(sn),
     complexity |-> quantum_complexity(sn)]

\* (a + b*sqrt(5)) * (c + d*sqrt(5))
RMul(x, y) == <<x[1] * y[1] + 5 * x[2] * y[2], x[1] * y[2] + x[2] * y[1]>>

\* 4 * sin(2*pi*m/N), 0 <= m < N <= 6, as <<p, q>> for p*u + q*w with
\* u = w = 0 (N <= 2), u = sqrt(3) (N = 3, 6), u = 1 (N = 4),
\* u = 4*sin(2*pi/5) and w = 4*sin(4*pi/5) (N = 5)
FourSin(N, m) ==
    CASE N = 1 -> <<0, 0>>
      [] N = 2 -> <<0, 0>>
      [] N = 3 -> <<<<0, 0>>, <<2, 0>>, <<-2, 0>>>>[m + 1]
      [] N = 4 -> <<<<0, 0>>, <<4, 0>>, <<0, 0>>, <<-4, 0>>>>[m + 1]
      [] N = 5 -> <<<<0, 0>>, <<1, 0>>, <<0, 1>>, <<0, -1>>, <<-1, 0>>>>[m + 1]
      [] N = 6 -> <<<<0, 0>>, <<2, 0>>, <<2, 0>>, <<0, 0>>, <<-2, 0>>, <<-2, 0>>>>[m + 1]

\* the sum as it would be with the samples numbered from 1,
\* np.exp(-2j * np.pi * k * np.arange(1, n + 1) / n)
RECURSIVE FeatureFromOneBased(_, _, _)
FeatureFromOneBased(x, k, t) ==
    LET N == Len(x)
        m == (k * (t + 1)) % N
        rest == FeatureFromOneBased(x, k, t + 1)
    IN  IF t = N THEN [re |-> RZero, im |-> RZero]
        ELSE [re |-> RAdd(RScale(x[t + 1], FourCos(N, m)), rest.re),
              im |-> RAdd(RScale(-x[t + 1], FourSin(N, m)), rest.im)]

\* np.sum(signal * np.exp(-2j * np.pi * k * np.arange(n) / n)) from sample t
\* on, times 4: the real part in a + b*sqrt(5), the imaginary part in p*u + q*w
RECURSIVE FeatureFrom(_, _, _)
FeatureFrom(x, k, t) ==
    LET N == Len(x)
        m == (k * t) % N
        rest == FeatureFrom(x, k, t + 1)
    IN  IF t = N THEN [re |-> RZero, im |-> RZero]
        ELSE [re |-> RAdd(RScale(x[t + 1], FourCos(N, m)), rest.re),
              im |-> RAdd(RScale(-x[t + 1], FourSin(N, m)), rest.im)]

RECURSIVE FeaturesFrom(_, _)
FeaturesFrom(x, k) ==
    IF k = Len(x) THEN <<>> ELSE <<FeatureFrom(x, k, 0)>> \o FeaturesFrom(x, k + 1)

\* _quantum_feature_extraction: coefficient k is entry k + 1 and stands for
\* (re + i*im) / (4 * divisor of sn)
quantum_feature_extraction(sn) == FeaturesFrom(sn.v, 0)

\* the square of the imaginary part p*u + q*w of a coefficient, in a + b*sqrt(5)
ImSquared(N, im) ==
    LET p == im[1]
        q == im[2]
    IN  CASE N \in {1, 2, 4} -> <<p * p, 0>>
          [] N \in {3, 6} -> <<3 * p * p, 0>>
          [] N = 5 -> <<10 * p * p + 10 * q * q, 2 * p * p - 2 * q * q + 8 * p * q>>

\* np.abs(phases), squared (times 16 and the squared divisor)
AbsSquared(phases) ==
    [k \in 1..Len(phases) |->
        RAdd(RMul(phases[k].re, phases[k].re), ImSquared(Len(phases), phases[k].im))]

\* the sign of the imaginary part p*u + q*w of a coefficient of an N-sample
\* transform (w = u * 2 / (1 + sqrt(5)) for N = 5)
ImSign(N, im) ==
    IF N = 5 THEN RSign(<<im[1] + 2 * im[2], im[1]>>)
    ELSE (IF im[1] > 0 THEN 1 ELSE IF im[1] < 0 THEN -1 ELSE 0)

\* np.angle(z) of a coefficient of an N-sample transform: the direction of z,
\* the angle of the point (sign of re, sign of im) scaled by |re| and |im|
angle(N, z) == [re |-> z.re, im |-> z.im, re_sign |-> RSign(z.re),
                im_sign |-> ImSign(N, z.im)]

\* _quantum_phase_estimation on a signal of at least one sample
quantum_phase_estimation(sn) ==
    LET phases == quantum_feature_extraction(sn)
        dominant == ArgMax(AbsSquared(phases))
    IN  [phases |-> phases, dominant_index |-> dominant,
         dominant_phase |-> angle(Len(phases), phases[dominant + 1])]

\* what np.argmax does with an empty sequence
ArgMaxRaises(N) == N = 0

\* QuantumProcessor.process_signal: the FeatureSet returned, or the exception
\* raised.  dominant_index is the index np.argmax picks among the transform
\* coefficients (their magnitudes order as their powers do).
process_signal(signal) ==
    LET sn == prepare_quantum_state(AsArray(signal))
        N == Len(sn.v)
    IN  IF ArgMaxRaises(N) THEN [raised |-> "ValueError"]
        ELSE LET estimate == quantum_phase_estimation(sn)
             IN  [raised |-> "none",
                  features |-> quantum_feature_extraction(sn),
                  phases |-> estimate.phases,
                  dominant_index |-> estimate.dominant_index,
                  dominant_phase |-> estimate.dominant_phase,
                  patterns |-> quantum_pattern_recognition(sn),
                  processed_signal |-> sn]

\* ------------------------------------------------- QuantumIntelligenceAPI
\* the step as it would be with the pad widths swapped, (L - size, 0)
PadFrontOrTruncate(sig, L) ==
    IF Len(sig) < L THEN [i \in 1..(L - Len(sig)) |-> 0] \o sig
    ELSE IF Len(sig) > L THEN SubSeq(sig, 1, L)
    ELSE sig

\* np.pad(signal_data, (0, L - size), mode='constant') / signal_data[:L]
PadOrTruncate(sig, L) ==
    IF Len(sig) < L THEN sig \o [i \in 1..(L - Len(sig)) |-> 0]
    ELSE IF Len(sig) > L THEN SubSeq(sig, 1, L)
    ELSE sig

\* signal_data.reshape(-1, L, 1): batches of L rows of one sample
Reshape(flat, L) ==
    [b \in 1..(Len(flat) \div L) |-> [r \in 1..L |-> <<flat[(b - 1) * L + r]>>]]

\* signal.ravel() of one batch
Ravel(batch) == [i \in 1..Len(batch) |-> batch[i][1]]

\* what process_signal hands to the processor: signal_data[0] of the reshaped
\* input, flattened by _prepare_quantum_state's ravel
HandedSignal(sig, L) == Ravel(Reshape(PadOrTruncate(sig, L), L)[1])

\* ------------------------------------------------------------------ actions
InRange(n, q) == q >= 0 /\ q < n

\* qubit indices a caller may pass: every in-range one, the negative ones
\* Python accepts as positions from the end, and one past either end
QubitArgs(n) == (-(n + 1))..n

NoCall == [op |-> "init", gate |-> "-", control |-> 0, target |-> 0, raised |-> FALSE]

\* the state vector as it would be with state[-1] = 1
InitialStateLast(n) == [i \in 0..(Dim(n) - 1) |-> IF i = Dim(n) - 1 THEN COne ELSE CZero]

\* np.zeros(2**n_qubits, dtype=complex) with state[0] = 1
InitialState(n) == [i \in 0..(Dim(n) - 1) |-> IF i = 0 THEN COne ELSE CZero]

\* nothing processed yet for the current input
NotProcessed ==
    /\ entry = "none"
    /\ handed = <<>>
    /\ features = [raised |-> "-"]
    /\ api_raised = FALSE

\* QuantumMonitor.__init__ and QuantumIntelligenceAPI.__init__ (metrics)
NoSignalCall ==
    /\ NotProcessed
    /\ signal_data = <<>>
    /\ metrics_requests = 0
    /\ monitor_requests = <<>>
    /\ monitor_errors = <<>>

\* ---------------------------------------------------------- authentication
\* Config.TOKEN_EXPIRE_HOURS
TOKEN_EXPIRE_HOURS == 24

\* Config.JWT_SECRET_KEY of this server process, and a key someone else holds
\* (secrets.token_hex(32) is drawn anew by every process)
JWT_SECRET_KEY == "secret of this process"
OtherKey == "another key"

\* the HS256 signature of a payload under a key
Hmac(key, payload) == [key |-> key, payload |-> payload]

\* jwt.encode(payload, key, algorithm='HS256')
JwtEncode(payload, key) ==
    [kind |-> "jwt", alg |-> "HS256", payload |-> payload, mac |-> Hmac(key, payload)]

\* the base64 of bytes(quantum_entropy[:16]): every measured bit is 1, since
\* |exp(1j * psi)| = 1 > 1/sqrt(2)
QuantumEntropy == "AQEBAQEBAQEBAQEBAQEBAQ=="

\* QuantumSecurityProtocol.generate_token, called at time now
generate_token(payload, now) ==
    JwtEncode([api_key |-> payload.api_key, exp |-> now + TOKEN_EXPIRE_HOURS,
               quantum_entropy |-> QuantumEntropy], JWT_SECRET_KEY)

\* QuantumIntelligenceAPI.authenticate
authenticate(api_key, now) == generate_token([api_key |-> api_key], now)

\* verify_token as it would be with options={'verify_exp': False}
verify_token_no_exp(token, now) ==
    /\ token.kind = "jwt"
    /\ token.alg = "HS256"
    /\ token.mac = Hmac(JWT_SECRET_KEY, token.payload)

\* QuantumSecurityProtocol.verify_token, called at time now: jwt.decode raises
\* an InvalidTokenError for a string that is no token, for another algorithm,
\* for a signature that does not match and for exp <= now
verify_token(token, now) ==
    /\ token.kind = "jwt"
    /\ token.alg = "HS256"
    /\ token.mac = Hmac(JWT_SECRET_KEY, token.payload)
    /\ token.payload.exp > now

\* request.headers.get('X-API-Key'): None, a string that is no token, or a token
NoHeader == [kind |-> "none"]
EmptyHeader == [kind |-> "string", text |-> ""]
GarbageHeader == [kind |-> "string", text |-> "not-a-token"]

\* `not api_key`
Falsy(header) == header.kind = "none" \/ (header.kind = "string" /\ header.text = "")

\* require_api_key: whether the decorated handler is called
require_api_key(header, now) == ~Falsy(header) /\ verify_token(header, now)

\* the api_key values of the body of /api/auth
ApiKeys == {"your-api-key", "k"}

\* what a client that holds the tokens toks can put in X-API-Key at time now:
\* nothing, strings, a token it was given, a token it signs with a key of its
\* own or marks unsigned, a token it was given with a later exp
Headers(toks, now) ==
    {NoHeader, EmptyHeader, GarbageHeader}
    \cup toks
    \cup {JwtEncode([api_key |-> k, exp |-> now + TOKEN_EXPIRE_HOURS,
                     quantum_entropy |-> QuantumEntropy], OtherKey) : k \in ApiKeys}
    \cup {[t EXCEPT !.alg = "none"] : t \in toks}
    \cup {[t EXCEPT !.payload.exp = now + TOKEN_EXPIRE_HOURS] : t \in toks}

\* the endpoints behind require_api_key
Protected ==
    {"/api/process-signal", "/api/detect-anomalies", "/api/encrypt",
     "/api/quantum-intelligence", "/api/metrics"}

Endpoints == Protected \cup {"/api/auth"}

\* the status a handler that runs can answer with (its try / except)
HandlerStatus(endpoint) == IF endpoint = "/api/metrics" THEN {200, 500} ELSE {200, 400}

\* @limiter.limit("10 per minute"): the request is within the limit
LimiterAllows(h, endpoint) == h[endpoint] < RateLimit

NoRequest == [endpoint |-> "-", header |-> NoHeader, at |-> 0, status |-> 0,
              ran |-> FALSE]

\* the server before its first request
NoAuth ==
    /\ clock = 0
    /\ nticks = 0
    /\ nrequests = 0
    /\ issued = {}
    /\ hits = [e \in Endpoints |-> 0]
    /\ response = NoRequest

\* ------------------------------------------------------------------ threads
Threads == {1, 2}

Other(t) == IF t = 1 THEN 2 ELSE 1

IdleCall == [pc |-> "idle", op |-> "-", gate |-> "-", control |-> 0, target |-> 0,
             value |-> <<>>]

\* no thread has called the circuit
NoRace ==
    /\ calls = [t \in Threads |-> IdleCall]
    /\ trace = <<>>

IdleWorker == [pc |-> "idle", given |-> <<>>, ret |-> [raised |-> "-"]]

NoFrame == [signal |-> <<>>, signal_norm |-> <<>>, features |-> <<>>,
            estimate |-> <<>>, patterns |-> <<>>]

\* no thread has called process_signal
NoWork ==
    /\ workers = [t \in Threads |-> IdleWorker]
    /\ frames = [t \in Threads |-> NoFrame]

\* Config.QUANTUM_DEPTH, the depth of the circuit a QuantumProcessor owns, and
\* the default of QuantumCircuit.__init__
QUANTUM_DEPTH == 3

\* no second circuit
NoTwin ==
    /\ depth = QUANTUM_DEPTH
    /\ twin = [depth |-> 0, state |-> <<>>]
    /\ ncalls = 0

IdleGetter == [pc |-> "idle", ncalls |-> 0, got |-> {}, raised |-> 0]

\* quantum_api = None (line 22): no get_api call yet
NoSingleton ==
    /\ quantum_api = 0
    /\ built = 0
    /\ getters = [t \in Threads |-> IdleGetter]

NotSealed == [data |-> <<>>, called |-> FALSE]

NotOpened == [called |-> FALSE]

\* nothing encrypted yet
NoCrypto ==
    /\ sealed = NotSealed
    /\ opened = NotOpened

NoRest == NoTwin /\ NoSingleton /\ NoCrypto

\* nothing of the service around the circuit and the processor is in use
NoService == normalised = <<>> /\ NoAuth /\ NoRace /\ NoWork /\ NoRest

\* QuantumCircuit.__init__
Init ==
    /\ n_qubits \in 1..MaxQubits
    /\ state = InitialState(n_qubits)
    /\ last = NoCall
    /\ prev = state
    /\ nbad = 0
    /\ NoSignalCall
    /\ NoService

\* a call that meets the preconditions of section 4.1
ApplyGate ==
    \E g \in GateNames, t \in 0..(n_qubits - 1) :
        /\ state' = apply_gate(n_qubits, state, Gate(g), t)
        /\ prev' = state
        /\ last' = [op |-> "apply_gate", gate |-> g, control |-> 0, target |-> t,
                    raised |-> ApplyGateRaises(n_qubits, t)]
        /\ UNCHANGED <<n_qubits, nbad, signal_vars, service_vars>>

EntangleQubits ==
    \E c \in 0..(n_qubits - 1), t \in 0..(n_qubits - 1) :
        /\ c # t
        /\ state' = entangle_qubits(n_qubits, state, c, t)
        /\ prev' = state
        /\ last' = [op |-> "entangle_qubits", gate |-> "-", control |-> c,
                    target |-> t, raised |-> EntangleRaises(n_qubits, c, t)]
        /\ UNCHANGED <<n_qubits, nbad, signal_vars, service_vars>>

\* a call with a qubit index outside 0..n_qubits-1
ApplyGateBadIndex ==
    \E g \in GateNames, t \in QubitArgs(n_qubits) :
        /\ ~InRange(n_qubits, t)
        /\ nbad < MaxBadCalls
        /\ state' = apply_gate(n_qubits, state, Gate(g), t)
        /\ prev' = state
        /\ last' = [op |-> "apply_gate", gate |-> g, control |-> 0, target |-> t,
                    raised |-> ApplyGateRaises(n_qubits, t)]
        /\ nbad' = nbad + 1
        /\ UNCHANGED <<n_qubits, signal_vars, service_vars>>

\* a call with control = target or with an index outside 0..n_qubits-1
EntangleQubitsBadArgs ==
    \E c \in QubitArgs(n_qubits), t \in QubitArgs(n_qubits) :
        /\ ~(InRange(n_qubits, c) /\ InRange(n_qubits, t) /\ c # t)
        /\ nbad < MaxBadCalls
        /\ state' = entangle_qubits(n_qubits, state, c, t)
        /\ prev' = state
        /\ last' = [op |-> "entangle_qubits", gate |-> "-", control |-> c,
                    target |-> t, raised |-> EntangleRaises(n_qubits, c, t)]
        /\ nbad' = nbad + 1
        /\ UNCHANGED <<n_qubits, signal_vars, service_vars>>

\* a call with a gate that is not a 2x2 matrix
ApplyGateBadShape ==
    \E g \in OtherShapes, t \in 0..(n_qubits - 1) :
        /\ nbad < MaxBadCalls
        /\ state' = apply_gate(n_qubits, state, ShapedGate(g), t)
        /\ prev' = state
        /\ last' = [op |-> "apply_gate", gate |-> g, control |-> 0, target |-> t,
                    raised |-> ApplyGateRaises(n_qubits, t)
                                  \/ GateShapeRaises(ShapedGate(g))]
        /\ nbad' = nbad + 1
        /\ UNCHANGED <<n_qubits, signal_vars, service_vars>>

\* callers that keep to the preconditions
Next == ApplyGate \/ EntangleQubits

Spec == Init /\ [][Next]_vars

\* callers that may also break them
NextArgs ==
    \/ ApplyGate
    \/ EntangleQubits
    \/ ApplyGateBadIndex
    \/ EntangleQubitsBadArgs
    \/ ApplyGateBadShape

SpecArgs == Init /\ [][NextArgs]_vars

\* the latest call broke off with an exception
Failed == last.op # "init" /\ last.raised

\* a call of apply_gate that raises: the index is beyond either end, or the
\* gate has fewer than two rows or columns
ApplyGateFails ==
    \E g \in GateNames \cup OtherShapes, t \in QubitArgs(n_qubits) :
        /\ ApplyGateRaises(n_qubits, t) \/ GateShapeRaises(AnyGate(g))
        /\ ~Failed
        /\ state' = apply_gate(n_qubits, state, AnyGate(g), t)
        /\ prev' = state
        /\ last' = [op |-> "apply_gate", gate |-> g, control |-> 0, target |-> t,
                    raised |-> TRUE]
        /\ UNCHANGED <<n_qubits, nbad, signal_vars, service_vars>>

\* a call of entangle_qubits that raises: an index is beyond either end
EntangleQubitsFails ==
    \E c \in QubitArgs(n_qubits), t \in QubitArgs(n_qubits) :
        /\ EntangleRaises(n_qubits, c, t)
        /\ ~Failed
        /\ state' = entangle_qubits(n_qubits, state, c, t)
        /\ prev' = state
        /\ last' = [op |-> "entangle_qubits", gate |-> "-", control |-> c,
                    target |-> t, raised |-> TRUE]
        /\ UNCHANGED <<n_qubits, nbad, signal_vars, service_vars>>

\* a caller goes on with calls that meet the preconditions until one fails
ApplyGateNext == ~Failed /\ ApplyGate

EntangleQubitsNext == ~Failed /\ EntangleQubits

\* a caller's calls return until one fails
NextFaults ==
    \/ ApplyGateNext
    \/ EntangleQubitsNext
    \/ ApplyGateFails
    \/ EntangleQubitsFails

SpecFaults == Init /\ [][NextFaults]_vars

\* ------------------------------------------------------- signal processing
\* Config.N_QUBITS, the size of the circuit a QuantumProcessor owns
N_QUBITS == 4

\* time.time() - start_time, in ticks
Durations == {1, 2}

\* QuantumProcessor.__init__ / QuantumIntelligenceAPI.__init__: the circuit of
\* the processor and the monitor, with the input `inputs` offers waiting
InitWith(inputs) ==
    /\ n_qubits = N_QUBITS
    /\ state = InitialState(n_qubits)
    /\ last = NoCall
    /\ prev = state
    /\ nbad = 0
    /\ NotProcessed
    /\ signal_data \in inputs
    /\ metrics_requests = 0
    /\ monitor_requests = <<>>
    /\ monitor_errors = <<>>
    /\ NoService

\* the caller comes with the next input
NextInput(inputs) ==
    /\ entry # "none"
    /\ signal_data' \in inputs
    /\ entry' = "none"
    /\ handed' = <<>>
    /\ features' = [raised |-> "-"]
    /\ api_raised' = FALSE
    /\ UNCHANGED <<metrics_requests, monitor_requests, monitor_errors, circuit_vars, service_vars>>

\* inputs passed straight to QuantumProcessor.process_signal
ProcessorInputs == SignalsOfLen(Samples, 0, MaxSignalLen)

InitSignal == InitWith(ProcessorInputs)

ProcessorNextInput == NextInput(ProcessorInputs)

\* a caller passes signal_data straight to QuantumProcessor.process_signal
ProcessorProcessSignal ==
    /\ entry = "none"
    /\ entry' = "processor"
    /\ handed' = signal_data
    /\ features' = process_signal(signal_data)
    /\ UNCHANGED <<signal_data, api_raised, metrics_requests, monitor_requests,
                   monitor_errors, circuit_vars, service_vars>>

NextSignal == ProcessorProcessSignal \/ ProcessorNextInput

SpecSignal == InitSignal /\ [][NextSignal]_vars

\* ------------------------------------------------------------ normalisation
\* vectors passed to _prepare_quantum_state: integer samples, and the same
\* samples scaled by 1e-10
NormaliseInputs ==
    {[v |-> v, den |-> d] : v \in SignalsOfLen(Samples, 0, MaxSignalLen),
                           d \in {DOne, DInvEps}}

\* QuantumProcessor.__init__, with a vector at hand
InitNormalise ==
    /\ n_qubits = N_QUBITS
    /\ state = InitialState(n_qubits)
    /\ last = NoCall
    /\ prev = state
    /\ nbad = 0
    /\ NoSignalCall
    /\ normalised \in {<<x>> : x \in NormaliseInputs}
    /\ NoAuth
    /\ NoRace
    /\ NoWork
    /\ NoRest

\* _prepare_quantum_state on the vector the last call returned (on the input,
\* the first time)
PrepareQuantumState ==
    /\ Len(normalised) <= MaxPasses
    /\ normalised' = Append(normalised,
                            prepare_quantum_state(normalised[Len(normalised)]))
    /\ UNCHANGED <<circuit_vars, signal_vars, rest_vars, auth_vars, race_vars, work_vars>>

NextNormalise == PrepareQuantumState

SpecNormalise == InitNormalise /\ [][NextNormalise]_vars

\* ------------------------------------------------------------ HTTP service
\* get_api() / QuantumIntelligenceAPI.__init__: the server starts
InitAuth ==
    /\ n_qubits = N_QUBITS
    /\ state = InitialState(n_qubits)
    /\ last = NoCall
    /\ prev = state
    /\ nbad = 0
    /\ NoSignalCall
    /\ NoService

\* POST /api/auth with api_key in its body ("" stands for a missing one too)
Authenticate ==
    \E api_key \in ApiKeys \cup {""} :
        /\ nrequests < MaxRequests
        /\ nrequests' = nrequests + 1
        /\ IF ~LimiterAllows(hits, "/api/auth")
           THEN /\ response' = [endpoint |-> "/api/auth", header |-> NoHeader,
                                at |-> clock, status |-> 429, ran |-> FALSE]
                /\ UNCHANGED <<hits, issued>>
           ELSE /\ hits' = [hits EXCEPT !["/api/auth"] = @ + 1]
                /\ IF api_key = ""
                   THEN /\ response' = [endpoint |-> "/api/auth", header |-> NoHeader,
                                        at |-> clock, status |-> 400, ran |-> TRUE]
                        /\ UNCHANGED issued
                   ELSE /\ issued' = issued \cup {authenticate(api_key, clock)}
                        /\ response' = [endpoint |-> "/api/auth", header |-> NoHeader,
                                        at |-> clock, status |-> 200, ran |-> TRUE]
        /\ UNCHANGED <<clock, nticks, normalised, race_vars, work_vars,
                   circuit_vars, signal_vars, rest_vars>>

\* a request to an endpoint behind @limiter.limit and @require_api_key: the
\* limiter answers 429 before the view function is entered, require_api_key
\* answers 401 or calls the handler
ProtectedRequest ==
    \E endpoint \in Protected, header \in Headers(issued, clock) :
        /\ nrequests < MaxRequests
        /\ nrequests' = nrequests + 1
        /\ IF ~LimiterAllows(hits, endpoint)
           THEN /\ response' = [endpoint |-> endpoint, header |-> header,
                                at |-> clock, status |-> 429, ran |-> FALSE]
                /\ UNCHANGED hits
           ELSE /\ hits' = [hits EXCEPT ![endpoint] = @ + 1]
                /\ IF require_api_key(header, clock)
                   THEN \E status \in HandlerStatus(endpoint) :
                            response' = [endpoint |-> endpoint, header |-> header,
                                         at |-> clock, status |-> status, ran |-> TRUE]
                   ELSE response' = [endpoint |-> endpoint, header |-> header,
                                     at |-> clock, status |-> 401, ran |-> FALSE]
        /\ UNCHANGED <<clock, nticks, issued, normalised, race_vars, work_vars,
                   circuit_vars, signal_vars, rest_vars>>

\* a minute ends: the limiter's windows start anew
MinutePasses ==
    /\ hits # [e \in Endpoints |-> 0]
    /\ hits' = [e \in Endpoints |-> 0]
    /\ UNCHANGED <<clock, nticks, nrequests, issued, response, normalised,
                   race_vars, work_vars, circuit_vars, signal_vars, rest_vars>>

\* time passes: an hour, or all but an hour of a token's life
Tick ==
    \E d \in {1, TOKEN_EXPIRE_HOURS - 1} :
        /\ nticks < MaxTicks
        /\ nticks' = nticks + 1
        /\ clock' = clock + d
        /\ hits' = [e \in Endpoints |-> 0]
        /\ UNCHANGED <<nrequests, issued, response, normalised, race_vars,
                       work_vars, circuit_vars, signal_vars, rest_vars>>

NextAuth == Authenticate \/ ProtectedRequest \/ MinutePasses \/ Tick

SpecAuth == InitAuth /\ [][NextAuth]_vars

\* one-dimensional inputs of QuantumIntelligenceAPI.process_signal: shorter
\* than, as long as and longer than the required length
ApiInputs == SignalsOfLen(ApiSamples, 0, RequiredLength + 1)

InitApi == InitWith(ApiInputs)

ApiNextInput == metrics_requests < MaxApiCalls /\ NextInput(ApiInputs)

\* QuantumIntelligenceAPI.process_signal on the one-dimensional signal_data;
\* neural_network.predict is an external model that returns or raises
ApiProcessSignal ==
    \E predict_ok \in BOOLEAN, duration \in Durations :
        LET h == HandedSignal(signal_data, RequiredLength)
            quantum_results == process_signal(h)
            raises == quantum_results.raised # "none" \/ ~predict_ok
        IN  /\ entry = "none"
            /\ metrics_requests' = metrics_requests + 1
            /\ entry' = "api"
            /\ handed' = h
            /\ features' = quantum_results
            /\ api_raised' = raises
            /\ IF raises
               THEN /\ monitor_errors' = Append(monitor_errors,
                          [error |-> IF quantum_results.raised # "none"
                                     THEN quantum_results.raised ELSE "predict",
                           info |-> [signal_shape |-> <<1, RequiredLength, 1>>]])
                    /\ UNCHANGED monitor_requests
               ELSE /\ monitor_requests' = Append(monitor_requests,
                          [type |-> "process_signal", duration |-> duration,
                           status |-> "success"])
                    /\ UNCHANGED monitor_errors
            /\ UNCHANGED <<signal_data, circuit_vars, service_vars>>

\* QuantumMonitor.get_metrics on the two lists (the times left out); the
\* quotient error_rate is kept as numerator and denominator
get_metrics(requests, errors) ==
    LET total_requests == Len(requests)
    IN  [total_errors |-> Len(errors),
         total_requests |-> total_requests,
         successful_requests |->
             Cardinality({i \in 1..Len(requests) : requests[i].status = "success"}),
         error_rate |-> IF total_requests > 0 THEN <<Len(errors), total_requests>>
                        ELSE <<0, 1>>]

NextApi == ApiProcessSignal \/ ApiNextInput

SpecApi == InitApi /\ [][NextApi]_vars

\* ------------------------------------------- concurrent calls on one circuit
\* the calls a thread can make that meet the preconditions of section 4.1
CircuitCalls(n) ==
    {[op |-> "apply_gate", gate |-> g, control |-> 0, target |-> t] :
        g \in GateNames, t \in 0..(n - 1)}
    \cup {[op |-> "entangle_qubits", gate |-> "-", control |-> q[1], target |-> q[2]] :
            q \in {p \in (0..(n - 1)) \X (0..(n - 1)) : p[1] # p[2]}}

\* gate_full @ self.state of a call, for self.state = st
Result(call, n, st) ==
    IF call.op = "apply_gate" THEN apply_gate(n, st, Gate(call.gate), call.target)
    ELSE entangle_qubits(n, st, call.control, call.target)

\* the assignment as it would be if the whole call held a lock: the product
\* is taken from the state as it is when the call assigns
StoreStateLocked(value, call, n, current) == Result(call, n, current)

\* self.state = <value>: the product computed earlier replaces the state
StoreState(value, call, n, current) == value

\* a thread enters apply_gate or entangle_qubits and builds gate_full
RaceCall ==
    \E t \in Threads, c \in CircuitCalls(n_qubits) :
        /\ calls[t].pc = "idle"
        /\ calls' = [calls EXCEPT ![t] =
                        [pc |-> "built", op |-> c.op, gate |-> c.gate,
                         control |-> c.control, target |-> c.target, value |-> <<>>]]
        /\ UNCHANGED <<trace, circuit_vars, signal_vars, rest_vars, normalised, auth_vars, work_vars>>

\* the thread evaluates gate_full @ self.state: it reads self.state
RaceRead ==
    \E t \in Threads :
        /\ calls[t].pc = "built"
        /\ calls' = [calls EXCEPT ![t].pc = "multiplied",
                                  ![t].value = Result(calls[t], n_qubits, state)]
        /\ trace' = Append(trace, <<t, "read">>)
        /\ UNCHANGED <<circuit_vars, signal_vars, rest_vars, normalised, auth_vars, work_vars>>

\* the thread assigns the product to self.state and returns
RaceWrite ==
    \E t \in Threads :
        /\ calls[t].pc = "multiplied"
        /\ state' = StoreState(calls[t].value, calls[t], n_qubits, state)
        /\ calls' = [calls EXCEPT ![t].pc = "returned"]
        /\ trace' = Append(trace, <<t, "write">>)
        /\ UNCHANGED <<n_qubits, last, prev, nbad, signal_vars, rest_vars, normalised, auth_vars,
                       work_vars>>

NextRace == RaceCall \/ RaceRead \/ RaceWrite

\* two threads share a fresh circuit, without a lock
SpecRace == Init /\ [][NextRace]_vars

\* ------------------------------------------- concurrent process_signal calls
\* the signals the threads pass
ConcurrentInputs == SignalsOfLen({0, 1}, 0, MaxConcurrentLen)

\* the frame as it would be if the intermediate results were attributes of
\* the processor (self.signal_norm, ...): one for all calls
FrameShared(t) == 1

\* the frame that holds the local variables of thread t's call: its own
FrameOf(t) == t

\* QuantumProcessor.__init__
InitWork ==
    /\ n_qubits = N_QUBITS
    /\ state = InitialState(n_qubits)
    /\ last = NoCall
    /\ prev = state
    /\ nbad = 0
    /\ NoSignalCall
    /\ NoService

\* a thread calls process_signal(signal)
WorkCall ==
    \E t \in Threads, signal \in ConcurrentInputs :
        /\ workers[t].pc = "idle"
        /\ workers' = [workers EXCEPT ![t].pc = "prepare", ![t].given = signal]
        /\ frames' = [frames EXCEPT ![FrameOf(t)].signal = signal]
        /\ UNCHANGED <<circuit_vars, signal_vars, rest_vars, normalised, auth_vars, race_vars>>

\* signal_norm = self._prepare_quantum_state(signal)
WorkPrepare ==
    \E t \in Threads :
        /\ workers[t].pc = "prepare"
        /\ frames' = [frames EXCEPT ![FrameOf(t)].signal_norm =
                         prepare_quantum_state(AsArray(frames[FrameOf(t)].signal))]
        /\ workers' = [workers EXCEPT ![t].pc = "extract"]
        /\ UNCHANGED <<circuit_vars, signal_vars, rest_vars, normalised, auth_vars, race_vars>>

\* features = self._quantum_feature_extraction(signal_norm)
WorkExtract ==
    \E t \in Threads :
        /\ workers[t].pc = "extract"
        /\ frames' = [frames EXCEPT ![FrameOf(t)].features =
                         quantum_feature_extraction(frames[FrameOf(t)].signal_norm)]
        /\ workers' = [workers EXCEPT ![t].pc = "estimate"]
        /\ UNCHANGED <<circuit_vars, signal_vars, rest_vars, normalised, auth_vars, race_vars>>

\* phases, dominant_phase = self._quantum_phase_estimation(signal_norm)
WorkEstimate ==
    \E t \in Threads :
        /\ workers[t].pc = "estimate"
        /\ IF ArgMaxRaises(Len(frames[FrameOf(t)].signal_norm.v))
           THEN /\ workers' = [workers EXCEPT ![t].pc = "raised",
                                              ![t].ret = [raised |-> "ValueError"]]
                /\ UNCHANGED frames
           ELSE /\ frames' = [frames EXCEPT ![FrameOf(t)].estimate =
                                 quantum_phase_estimation(frames[FrameOf(t)].signal_norm)]
                /\ workers' = [workers EXCEPT ![t].pc = "recognise"]
        /\ UNCHANGED <<circuit_vars, signal_vars, rest_vars, normalised, auth_vars, race_vars>>

\* patterns = self._quantum_pattern_recognition(signal_norm)
WorkRecognise ==
    \E t \in Threads :
        /\ workers[t].pc = "recognise"
        /\ frames' = [frames EXCEPT ![FrameOf(t)].patterns =
                         quantum_pattern_recognition(frames[FrameOf(t)].signal_norm)]
        /\ workers' = [workers EXCEPT ![t].pc = "return"]
        /\ UNCHANGED <<circuit_vars, signal_vars, rest_vars, normalised, auth_vars, race_vars>>

\* return {...}
WorkReturn ==
    \E t \in Threads :
        LET f == frames[FrameOf(t)]
        IN  /\ workers[t].pc = "return"
            /\ workers' = [workers EXCEPT ![t].pc = "returned",
                              ![t].ret = [raised |-> "none",
                                          features |-> f.features,
                                          phases |-> f.estimate.phases,
                                          dominant_index |-> f.estimate.dominant_index,
                                          dominant_phase |-> f.estimate.dominant_phase,
                                          patterns |-> f.patterns,
                                          processed_signal |-> f.signal_norm]]
            /\ UNCHANGED <<frames, circuit_vars, signal_vars, rest_vars, normalised, auth_vars,
                           race_vars>>

NextWork ==
    \/ WorkCall
    \/ WorkPrepare
    \/ WorkExtract
    \/ WorkEstimate
    \/ WorkRecognise
    \/ WorkReturn

\* two threads call process_signal on one QuantumProcessor
SpecWork == InitWork /\ [][NextWork]_vars

\* ------------------------------------------------- two circuits, two depths
\* the fields of a QuantumCircuit
Circuit(n, d, st) == [n_qubits |-> n, depth |-> d, state |-> st]

RECURSIVE Layers(_, _, _, _)
Layers(call, n, st, k) ==
    IF k = 0 THEN st ELSE Layers(call, n, Result(call, n, st), k - 1)

\* the method as it would be if it applied its operator once per layer
CallOnPerLayer(self, call) ==
    [self EXCEPT !.state = Layers(call, self.n_qubits, self.state, self.depth)]

\* self after the method call: it reads self.n_qubits and self.state and
\* assigns self.state
CallOn(self, call) ==
    [self EXCEPT !.state = Result(call, self.n_qubits, self.state)]

\* QuantumCircuit(n_qubits, depth), twice with the same n_qubits, the second
\* time with the larger depth
InitDepth ==
    /\ n_qubits \in 1..MaxQubits
    /\ state = InitialState(n_qubits)
    /\ last = NoCall
    /\ prev = state
    /\ nbad = 0
    /\ NoSignalCall
    /\ normalised = <<>>
    /\ NoAuth
    /\ NoRace
    /\ NoWork
    /\ depth \in 1..MaxDepth
    /\ \E d \in (depth + 1)..MaxDepth :
          twin = [depth |-> d, state |-> InitialState(n_qubits)]
    /\ ncalls = 0
    /\ NoSingleton
    /\ NoCrypto

\* the same call on both circuits
PairCall(c) ==
    LET one == CallOn(Circuit(n_qubits, depth, state), c)
        two == CallOn(Circuit(n_qubits, twin.depth, twin.state), c)
    IN  /\ ncalls < MaxPairCalls
        /\ ncalls' = ncalls + 1
        /\ state' = one.state
        /\ depth' = one.depth
        /\ twin' = [depth |-> two.depth, state |-> two.state]
        /\ prev' = state
        /\ last' = [op |-> c.op, gate |-> c.gate, control |-> c.control,
                    target |-> c.target, raised |-> FALSE]
        /\ UNCHANGED <<n_qubits, nbad, signal_vars, normalised, auth_vars, race_vars,
                       work_vars, singleton_vars, crypto_vars>>

PairApplyGate ==
    \E c \in CircuitCalls(n_qubits) : c.op = "apply_gate" /\ PairCall(c)

PairEntangleQubits ==
    \E c \in CircuitCalls(n_qubits) : c.op = "entangle_qubits" /\ PairCall(c)

NextDepth == PairApplyGate \/ PairEntangleQubits

SpecDepth == InitDepth /\ [][NextDepth]_vars

\* ------------------------------------------------ a short run on one circuit
\* whether a call raises
Raises(call, n) ==
    IF call.op = "apply_gate"
    THEN ApplyGateRaises(n, call.target) \/ GateShapeRaises(Gate(call.gate))
    ELSE EntangleRaises(n, call.control, call.target)

\* one of the first MaxPairCalls calls on a circuit
ShortCall(c) ==
    /\ ncalls < MaxPairCalls
    /\ ncalls' = ncalls + 1
    /\ state' = Result(c, n_qubits, state)
    /\ prev' = state
    /\ last' = [op |-> c.op, gate |-> c.gate, control |-> c.control,
                target |-> c.target, raised |-> Raises(c, n_qubits)]
    /\ UNCHANGED <<n_qubits, nbad, depth, twin, signal_vars, normalised, auth_vars,
                   race_vars, work_vars, singleton_vars, crypto_vars>>

ShortApplyGate ==
    \E c \in CircuitCalls(n_qubits) : c.op = "apply_gate" /\ ShortCall(c)

ShortEntangleQubits ==
    \E c \in CircuitCalls(n_qubits) : c.op = "entangle_qubits" /\ ShortCall(c)

\* entangle_qubits with the same qubit as control and as target
ShortEntangleSelf ==
    \E q \in 0..(n_qubits - 1) :
        ShortCall([op |-> "entangle_qubits", gate |-> "-", control |-> q, target |-> q])

NextShort == ShortApplyGate \/ ShortEntangleQubits

SpecShort == Init /\ [][NextShort]_vars

NextSelf == ShortApplyGate \/ ShortEntangleQubits \/ ShortEntangleSelf

SpecSelf == Init /\ [][NextSelf]_vars

\* ------------------------------------------------------------------ get_api
\* a thread's request enters get_api and takes line 33: quantum_api is None,
\* or it is not
GetApiCheck ==
    \E t \in Threads :
        /\ getters[t].pc = "idle"
        /\ getters[t].ncalls < MaxGetApiCalls
        /\ getters' = [getters EXCEPT ![t].ncalls = @ + 1,
                                      ![t].pc = IF quantum_api = 0 THEN "construct"
                                                ELSE "return"]
        /\ UNCHANGED <<quantum_api, built, circuit_vars, signal_vars, normalised,
                       auth_vars, race_vars, work_vars, twin_vars, crypto_vars>>

\* line 35: QuantumIntelligenceAPI(security_level='high') returns a new
\* instance, which is assigned to quantum_api
GetApiConstruct ==
    \E t \in Threads :
        /\ getters[t].pc = "construct"
        /\ built' = built + 1
        /\ quantum_api' = built + 1
        /\ getters' = [getters EXCEPT ![t].pc = "return"]
        /\ UNCHANGED <<circuit_vars, signal_vars, normalised, auth_vars, race_vars,
                       work_vars, twin_vars, crypto_vars>>

\* lines 36-38: the constructor raises; the error is logged and raised again
GetApiConstructFails ==
    \E t \in Threads :
        /\ getters[t].pc = "construct"
        /\ getters' = [getters EXCEPT ![t].pc = "idle", ![t].raised = @ + 1]
        /\ UNCHANGED <<quantum_api, built, circuit_vars, signal_vars, normalised,
                       auth_vars, race_vars, work_vars, twin_vars, crypto_vars>>

\* line 39: return quantum_api
GetApiReturn ==
    \E t \in Threads :
        /\ getters[t].pc = "return"
        /\ getters' = [getters EXCEPT ![t].pc = "idle",
                                      ![t].got = @ \cup {quantum_api}]
        /\ UNCHANGED <<quantum_api, built, circuit_vars, signal_vars, normalised,
                       auth_vars, race_vars, work_vars, twin_vars, crypto_vars>>

NextSingleton ==
    \/ GetApiCheck
    \/ GetApiConstruct
    \/ GetApiConstructFails
    \/ GetApiReturn

\* the module is imported (quantum_api = None) and the server's threads serve
\* requests
SpecSingleton == InitAuth /\ [][NextSingleton]_vars

\* ------------------------------------------------- multi-layer encryption
Bytes == 0..(Pow2(BitsPerByte) - 1)

ByteStrings(len) == [1..len -> Bytes]

\* int(''.join(map(str, quantum_bits[i:i+8])), 2), the bits from position
\* `from` on, w of them
RECURSIVE FromBits(_, _, _)
FromBits(bits, from, w) ==
    IF w = 0 THEN 0 ELSE bits[from] * Pow2(w - 1) + FromBits(bits, from + 1, w - 1)

\* _generate_quantum_key(length) for the bits (np.random.randn(...) >
\* threshold) drawn in the call
generate_quantum_key(quantum_bits, length) ==
    [i \in 1..length |-> FromBits(quantum_bits, (i - 1) * BitsPerByte + 1, BitsPerByte)]

\* the bits one call of _generate_quantum_key(length) may draw
QuantumBits(length) == [1..(length * BitsPerByte) -> {0, 1}]

\* d ^ n on two bytes
RECURSIVE Xor(_, _, _)
Xor(d, n, w) ==
    IF w = 0 THEN 0 ELSE ((d + n) % 2) + 2 * Xor(d \div 2, n \div 2, w - 1)

\* bytes(d ^ n for d, n in zip(data, noise))
XorBytes(data, noise) ==
    [i \in 1..(IF Len(data) < Len(noise) THEN Len(data) ELSE Len(noise)) |->
        Xor(data[i], noise[i], BitsPerByte)]

\* _add_quantum_noise / _remove_quantum_noise for the key drawn in the call
add_quantum_noise(data, quantum_bits) ==
    XorBytes(data, generate_quantum_key(quantum_bits, Len(data)))

remove_quantum_noise(data, quantum_bits) ==
    XorBytes(data, generate_quantum_key(quantum_bits, Len(data)))

\* os.urandom(12)
Nonces == {"nonce 1", "nonce 2"}

\* self.quantum_key and the keys of the two security layers
QuantumKey == "quantum_key"
LayerKeys == <<"key of quantum_encryption", "key of quantum_authentication">>

\* AESGCM(key).encrypt(nonce, data, None) and decrypt(nonce, data, None)
AesGcmEncrypt(key, nonce, data) == [key |-> key, nonce |-> nonce, data |-> data]

AesGcmDecrypt(key, nonce, encrypted_data) ==
    IF encrypted_data.key = key /\ encrypted_data.nonce = nonce
    THEN [raised |-> "none", data |-> encrypted_data.data]
    ELSE [raised |-> "InvalidTag", data |-> <<>>]

\* the angles np.random.uniform(0, 2 * np.pi, bits) may draw, in quarter turns
Angles == 0..3

\* np.abs(np.exp(1j * psi)) for a real psi
AbsExp(psi) == 1

\* _generate_quantum_entropy: the bit is 1 where |exp(1j * psi)| > 1/sqrt(2)
generate_quantum_entropy(psi) ==
    [i \in DOMAIN psi |-> IF 2 * AbsExp(psi[i]) * AbsExp(psi[i]) > 1 THEN 1 ELSE 0]

\* generate_quantum_signature for the angles drawn in the call
generate_quantum_signature(data, psi) ==
    LET quantum_entropy == generate_quantum_entropy(psi)
    IN  [l \in 1..Len(LayerKeys) |->
            Hmac(LayerKeys[l], [data |-> data, quantum_entropy |-> quantum_entropy])]

\* encrypt_multi_layer(data)
EncryptMultiLayer ==
    \E len \in 0..MaxDataLen :
        \E data \in ByteStrings(len), nonce \in Nonces, quantum_bits \in QuantumBits(len),
           psi \in [1..EntropyBits -> Angles] :
            LET noisy_data == add_quantum_noise(data, quantum_bits)
                encrypted_data == AesGcmEncrypt(QuantumKey, nonce, noisy_data)
                auth_tag == generate_quantum_signature(encrypted_data, psi)
            IN  /\ ~sealed.called
                /\ sealed' = [data |-> data, called |-> TRUE,
                              encrypted_data |-> encrypted_data,
                              metadata |-> [nonce |-> nonce, auth_tag |-> auth_tag]]
                /\ UNCHANGED <<opened, circuit_vars, signal_vars, normalised, auth_vars,
                               race_vars, work_vars, twin_vars, singleton_vars>>

\* decrypt_multi_layer(encrypted_data, metadata) on what encrypt_multi_layer
\* returned
DecryptMultiLayer ==
    \E quantum_bits \in QuantumBits(Len(sealed.data)), psi \in [1..EntropyBits -> Angles] :
        LET nonce == sealed.metadata.nonce
            auth_tag == sealed.metadata.auth_tag
            expected_tag == generate_quantum_signature(sealed.encrypted_data, psi)
            decrypted_data == AesGcmDecrypt(QuantumKey, nonce, sealed.encrypted_data)
        IN  /\ sealed.called
            /\ ~opened.called
            /\ opened' =
                  IF auth_tag # expected_tag
                  THEN [called |-> TRUE, raised |-> "ValueError", data |-> <<>>]
                  ELSE IF decrypted_data.raised # "none"
                  THEN [called |-> TRUE, raised |-> decrypted_data.raised, data |-> <<>>]
                  ELSE [called |-> TRUE, raised |-> "none",
                        data |-> remove_quantum_noise(decrypted_data.data, quantum_bits)]
            /\ UNCHANGED <<sealed, circuit_vars, signal_vars, normalised, auth_vars,
                           race_vars, work_vars, twin_vars, singleton_vars>>

NextCrypto == EncryptMultiLayer \/ DecryptMultiLayer

\* QuantumSecurityProtocol.__init__, then one round trip
SpecCrypto == InitAuth /\ [][NextCrypto]_vars

\* ------------------------------------------------------------------ claims
\* the latest call was a call of op that returned normally
Returned(op) == last.op = op /\ ~last.raised

\* some amplitude carries a factor 1/sqrt(2): the state is a superposition
Superposed == \E i \in 0..(Dim(n_qubits) - 1) : state[i][5] > 0

\* C1: after every sequence of apply_gate and entangle_qubits calls that keep
\* to the preconditions, the squared magnitudes of the state vector sum to 1.
C1_UnitNorm == NormSq(state, n_qubits) = COne

C1_Witness == Returned("entangle_qubits") /\ Superposed /\ state # prev

\* C2: when apply_gate(X, q) has just returned, calling apply_gate(X, q) once
\* more gives back, amplitude by amplitude, the state the first call started
\* from.
C2_XTwice ==
    (Returned("apply_gate") /\ last.gate = "X")
        => apply_gate(n_qubits, state, X, last.target) = prev

C2_Witness == Returned("apply_gate") /\ last.gate = "X" /\ Superposed /\ state # prev

\* C3: when entangle_qubits(control, target) with control # target has just
\* returned, calling it once more with the same arguments gives back,
\* amplitude by amplitude, the state the first call started from.
C3_EntangleTwice ==
    (Returned("entangle_qubits") /\ last.control # last.target)
        => entangle_qubits(n_qubits, state, last.control, last.target) = prev

C3_Witness ==
    /\ Returned("entangle_qubits")
    /\ last.control # last.target
    /\ Superposed
    /\ state # prev
    /\ n_qubits = MaxQubits

\* C4: a call of apply_gate or entangle_qubits with a qubit index outside
\* 0..n_qubits-1 (negative ones included) raises and leaves the state as it was.
IndexOutOfRange ==
    \/ last.op = "apply_gate" /\ ~InRange(n_qubits, last.target)
    \/ last.op = "entangle_qubits"
          /\ (~InRange(n_qubits, last.control) \/ ~InRange(n_qubits, last.target))

C4_BadIndexRaises == IndexOutOfRange => (last.raised /\ state = prev)

\* the operator of section 4.1: entry (i, j) is gate[bit(i,target), bit(j,target)]
\* where i and j agree on every other bit position, and 0 elsewhere
EmbeddedOperator(n, gate, target) ==
    [i \in 0..(Dim(n) - 1) |-> [j \in 0..(Dim(n) - 1) |->
        IF \A k \in (0..(n - 1)) \ {target} : i_bin(i, n)[k] = i_bin(j, n)[k]
        THEN GateEntry(gate, i_bin(i, n)[target], i_bin(j, n)[target])
        ELSE CZero]]

\* a gate with four different entries, none of them 0
ProbeGate == <<<<COne, <<2, 0, 0, 0, 0>>>>, <<<<3, 0, 0, 0, 0>>, CI>>>>

\* C5: apply_gate(gate, target) with an in-range target replaces the state by
\* M x state, M being the operator of section 4.1; the operator the code
\* builds equals M entry by entry, for the named gates and for a gate with
\* four different entries.  (The operator does not depend on the state: it is
\* compared where the call is the first one on a fresh circuit, which every
\* gate and target is.)
C5_EmbeddedOperator ==
    Returned("apply_gate") =>
        /\ state = MatVec(EmbeddedOperator(n_qubits, Gate(last.gate), last.target),
                          prev, Dim(n_qubits))
        /\ prev = InitialState(n_qubits) =>
              /\ apply_gate_full(n_qubits, Gate(last.gate), last.target)
                    = EmbeddedOperator(n_qubits, Gate(last.gate), last.target)
              /\ apply_gate_full(n_qubits, ProbeGate, last.target)
                    = EmbeddedOperator(n_qubits, ProbeGate, last.target)

C5_Witness ==
    /\ Returned("apply_gate")
    /\ last.gate = "H"
    /\ n_qubits = MaxQubits
    /\ last.target = 0
    /\ Superposed
    /\ \E i \in 0..(Dim(n_qubits) - 1) : prev[i] # CZero /\ state[i] = CZero

\* bit of basis index i at the position of qubit q, and i with that bit flipped
BitOf(i, n, q) == (i \div Pow2(n - 1 - q)) % 2
Partner(i, n, q) ==
    IF BitOf(i, n, q) = 0 THEN i + Pow2(n - 1 - q) ELSE i - Pow2(n - 1 - q)

\* C6: entangle_qubits(control, target) with control # target permutes the
\* amplitudes: an index whose control bit is 1 receives the amplitude of the
\* index that differs from it in the target bit only, an index whose control
\* bit is 0 keeps its amplitude, and the operator is that permutation matrix
\* (each pair exchanged once).  (The operator does not depend on the state: it
\* is compared where the call is the first one on a fresh circuit.)
C6_EntanglePermutes ==
    (Returned("entangle_qubits") /\ last.control # last.target) =>
        LET n == n_qubits
            c == last.control
            t == last.target
            src(i) == IF BitOf(i, n, c) = 1 THEN Partner(i, n, t) ELSE i
        IN  /\ \A i \in 0..(Dim(n) - 1) : state[i] = prev[src(i)]
            /\ prev = InitialState(n) =>
                  entangle_gate_full(n, c, t)
                      = [i \in 0..(Dim(n) - 1) |-> [j \in 0..(Dim(n) - 1) |->
                            IF j = src(i) THEN COne ELSE CZero]]

C6_Witness ==
    /\ Returned("entangle_qubits")
    /\ last.control # last.target
    /\ \E i, j \in 0..(Dim(n_qubits) - 1) :
          /\ i # j
          /\ state[i] = prev[j] /\ state[j] = prev[i]
          /\ state[i] # state[j]
          /\ state[i] # CZero /\ state[j] # CZero

\* C7: a fresh circuit has amplitude 1 at index 0 and 0 elsewhere, and with
\* n_qubits = 1 apply_gate(H, 0) on that state gives [1/sqrt(2), 1/sqrt(2)].
C7_FreshAndHadamard ==
    /\ last.op = "init" =>
          \A i \in 0..(Dim(n_qubits) - 1) : state[i] = IF i = 0 THEN COne ELSE CZero
    /\ (/\ n_qubits = 1
        /\ Returned("apply_gate") /\ last.gate = "H" /\ last.target = 0
        /\ prev = [i \in 0..1 |-> IF i = 0 THEN COne ELSE CZero])
          => state = [i \in 0..1 |-> CInvSqrt2]

C7_Witness ==
    /\ n_qubits = 1
    /\ Returned("apply_gate") /\ last.gate = "H" /\ last.target = 0
    /\ prev = [i \in 0..1 |-> IF i = 0 THEN COne ELSE CZero]
    /\ state[0] = state[1]

\* C8: whatever the length of a one-dimensional input, the signal that
\* QuantumIntelligenceAPI.process_signal hands to the feature extractor has
\* exactly RequiredLength samples: the input's first samples in order, then
\* zeros.
C8_HandedLength ==
    entry = "api" =>
        /\ Len(handed) = RequiredLength
        /\ \A i \in 1..RequiredLength :
              handed[i] = IF i <= Len(signal_data) THEN signal_data[i] ELSE 0

C8_Witness ==
    /\ entry = "api"
    /\ Len(signal_data) > 0
    /\ Len(signal_data) < RequiredLength
    /\ signal_data[1] # 0
    /\ handed[RequiredLength] = 0
    /\ metrics_requests = MaxApiCalls

\* C9: QuantumProcessor.process_signal never raises for a numeric input
\* sequence, the empty one included: it always returns a FeatureSet.
C9_NeverRaises == entry = "processor" => features.raised = "none"

AllZero(sig) == \A i \in 1..Len(sig) : sig[i] = 0

\* C10: for an all-zero signal of at least one sample the periodic metric is a
\* finite number, never NaN.
C10_ZeroSignalPeriodic ==
    (entry = "processor" /\ Len(signal_data) >= 1 /\ AllZero(signal_data))
        => /\ features.raised = "none"
           /\ features.patterns.periodic.kind # "nan"

\* C11: for an all-zero signal of L >= 1 samples the FeatureSet holds a
\* processed_signal of L zeros (no NaN), noise_level = 0 and complexity = 0.
C11_ZeroSignalFeatures ==
    (entry = "processor" /\ Len(signal_data) >= 1 /\ AllZero(signal_data)) =>
        /\ features.raised = "none"
        /\ Len(features.processed_signal.v) = Len(signal_data)
        /\ \A i \in 1..Len(signal_data) :
              /\ SampleOf(features.processed_signal, i).kind = "quotient"
              /\ SampleOf(features.processed_signal, i).num = 0
        /\ features.patterns.noise_level.radicand = 0
        /\ features.patterns.complexity = 0

C11_Witness ==
    /\ entry = "processor"
    /\ Len(signal_data) >= 2
    /\ AllZero(signal_data)
    /\ features.raised = "none"
    /\ features.patterns.periodic.kind = "nan"

UnitImpulse(sig) ==
    /\ Len(sig) >= 1
    /\ sig[1] = 1
    /\ \A i \in 2..Len(sig) : sig[i] = 0

\* C12: for a signal whose only non-zero sample is a 1 at t = 0, every
\* transform coefficient equals the normalised value of that sample (real,
\* no imaginary part), and dominant_phase = 0.
C12_ImpulseTransform ==
    (entry = "processor" /\ UnitImpulse(signal_data)) =>
        /\ features.raised = "none"
        /\ Len(features.features) = Len(signal_data)
        /\ \A k \in 1..Len(signal_data) :
              features.features[k] =
                  [re |-> <<4 * features.processed_signal.v[1], 0>>, im |-> <<0, 0>>]
        /\ features.dominant_phase.im_sign = 0
        /\ features.dominant_phase.re_sign = 1

C12_Witness ==
    /\ entry = "processor"
    /\ signal_data = <<1, 0, 0, 0>>
    /\ features.raised = "none"
    /\ Len(features.features) = 4

\* C13: dominant_phase is the angle of the transform coefficient of largest
\* magnitude, the one of lowest index among several of that magnitude
\* (magnitudes compared through the power spectrum of the same signal).
C13_DominantPhase ==
    (entry = "processor" /\ features.raised = "none") =>
        LET power == PowerSpectrum(features.processed_signal)
            k == features.dominant_index + 1
        IN  /\ k \in 1..Len(signal_data)
            /\ \A j \in 1..Len(power) : ~RLess(power[k], power[j])
            /\ \A j \in 1..(k - 1) : RLess(power[j], power[k])
            /\ features.phases = features.features
            /\ features.dominant_phase.re = features.phases[k].re
            /\ features.dominant_phase.im = features.phases[k].im

C13_Witness ==
    /\ entry = "processor"
    /\ features.raised = "none"
    /\ LET power == PowerSpectrum(features.processed_signal)
           k == features.dominant_index + 1
       IN  /\ \E j \in (k + 1)..Len(power) : power[j] = power[k]
           /\ features.dominant_phase.im_sign # 0

\* a periodic metric that is a number of the interval [0, 1]
InUnitInterval(q) ==
    /\ q.kind = "quotient"
    /\ RSign(q.den) = 1
    /\ RSign(q.num) >= 0
    /\ ~RLess(q.den, q.num)

\* C14: for every signal noise_level >= 0 and complexity >= 0 are returned,
\* and for every signal of at least one sample that is not all-zero the
\* returned periodic metric lies in [0, 1].
C14_MetricRanges ==
    entry = "processor" =>
        /\ features.raised = "none"
        /\ features.patterns.noise_level.radicand >= 0
        /\ features.patterns.complexity >= 0
        /\ (Len(signal_data) >= 1 /\ ~AllZero(signal_data))
              => InUnitInterval(features.patterns.periodic)

\* C15: a signal of 0 or 1 samples gets defined pattern metrics instead of a
\* failure: complexity = 0 and noise_level = 0.
C15_DegenerateMetrics ==
    (entry = "processor" /\ Len(signal_data) <= 1) =>
        /\ features.raised = "none"
        /\ features.patterns.noise_level.radicand = 0
        /\ features.patterns.complexity = 0

\* C16: apply_gate with a gate that is not a 2x2 matrix fails with an error
\* and leaves the state alone, whatever the shape; it never uses a 2x2
\* sub-block of a larger matrix as the gate.
C16_BadShapeRaises ==
    (last.op = "apply_gate" /\ last.gate \in OtherShapes) =>
        (last.raised /\ state = prev)

\* the place (from 1) of the lowest-order term of a divisor that is not 0
LeadAt(d, S) ==
    CHOOSE i \in 1..Len(d.c) :
        /\ ~RootIsZero(d.c[i], S)
        /\ \A j \in 1..(i - 1) : RootIsZero(d.c[j], S)

\* two positive divisors that agree up to a factor 1 + O(1e-10): their
\* lowest-order terms are the same power of epsilon with the same coefficient
SameLeading(d, e, S) ==
    /\ ~DenIsZero(d, S)
    /\ ~DenIsZero(e, S)
    /\ d.low + LeadAt(d, S) = e.low + LeadAt(e, S)
    /\ RootIsZero(<<d.c[LeadAt(d, S)][1] - e.c[LeadAt(e, S)][1],
                    d.c[LeadAt(d, S)][2] - e.c[LeadAt(e, S)][2]>>, S)

\* the vectors x and y agree sample by sample within a tolerance that is
\* small against 1 and large against 1e-10 (divisors whose lowest-order terms
\* differ give samples that differ in their leading digits)
WithinTolerance(x, y) ==
    /\ x.v = y.v
    /\ \A i \in 1..Len(x.v) :
          /\ SampleOf(x, i).kind = "quotient"
          /\ SampleOf(y, i).kind = "quotient"
          /\ x.v[i] # 0 => SameLeading(x.den, y.den, x.sumsq)

\* C17 as claimed: for every signal x, normalize(normalize(x)) = normalize(x)
\* within tolerance, and the all-zero signal is mapped to itself.
C17_NormaliseIdempotent ==
    Len(normalised) >= 3 =>
        /\ WithinTolerance(normalised[3], normalised[2])
        /\ AllZero(normalised[1].v) =>
              \A i \in 1..Len(normalised[1].v) : SampleOf(normalised[2], i).num = 0

\* C17 as amended: the same for every signal that is all-zero or whose norm is
\* at least 1 (here: integer samples).
C17_NormaliseIdempotentAwayFromEpsilon ==
    (Len(normalised) >= 3 /\ (normalised[1].den = DOne \/ AllZero(normalised[1].v))) =>
        /\ WithinTolerance(normalised[3], normalised[2])
        /\ AllZero(normalised[1].v) =>
              \A i \in 1..Len(normalised[1].v) : SampleOf(normalised[2], i).num = 0

C17_Witness ==
    /\ Len(normalised) = 3
    /\ normalised[1].den = DOne
    /\ Len(normalised[1].v) >= 2
    /\ normalised[1].v[1] # 0
    /\ normalised[1].v[2] # 0
    /\ normalised[3].den # normalised[2].den

\* the X-API-Key header of the latest request carries a token /api/auth has
\* returned, not yet expired when the request came
CarriesValidToken ==
    /\ response.header \in issued
    /\ response.header.payload.exp > response.at

\* C18 as claimed: a request to a protected endpoint reaches its handler if
\* and only if X-API-Key carries an unexpired token returned by /api/auth;
\* with a missing, forged or expired token it gets 401.
C18_TokenGate ==
    response.endpoint \in Protected =>
        /\ response.ran <=> CarriesValidToken
        /\ ~CarriesValidToken => response.status = 401

\* C18 as amended: the same for every request the endpoint's rate limit
\* admits; a request over the limit gets 429 and its handler does not run.
C18_TokenGateWithinLimit ==
    response.endpoint \in Protected =>
        /\ response.status = 429 => ~response.ran
        /\ response.status # 429 =>
              /\ response.ran <=> CarriesValidToken
              /\ ~CarriesValidToken => response.status = 401

C18_Witness ==
    /\ response.endpoint \in Protected
    /\ response.ran
    /\ CarriesValidToken
    /\ response.at = TOKEN_EXPIRE_HOURS - 1
    /\ \E t \in issued : t.payload.exp <= clock

\* both threads have returned from their calls on the circuit
BothReturned == \A t \in Threads : calls[t].pc = "returned"

\* the calls did not overlap: the first to read self.state wrote it before
\* the other read it
Serialized == trace[2] = <<trace[1][1], "write">>

\* C19: when two calls on one circuit are serialized the final state is their
\* composition in the order they ran; when they overlap, both read the state
\* the pair started from and the final state is the result of the call that
\* assigned last alone (the other update is lost).
C19_LostUpdate ==
    BothReturned =>
        LET first == trace[1][1]
            second == Other(first)
            writer == trace[4][1]
        IN  IF Serialized
            THEN state = Result(calls[second], n_qubits,
                                Result(calls[first], n_qubits, prev))
            ELSE state = Result(calls[writer], n_qubits, prev)

\* an interleaving whose final state is the result of one call only and of
\* neither sequential order of the two
C19_Witness ==
    /\ BothReturned
    /\ ~Serialized
    /\ state = Result(calls[trace[4][1]], n_qubits, prev)
    /\ state # Result(calls[2], n_qubits, Result(calls[1], n_qubits, prev))
    /\ state # Result(calls[1], n_qubits, Result(calls[2], n_qubits, prev))
    /\ calls[1].op = "apply_gate"
    /\ calls[2].op = "entangle_qubits"

\* C20: process_signal leaves the processor's circuit and its input as they
\* were, and however two calls on independent inputs interleave, each returns
\* (or raises) what the call returns when it runs alone on its input.
C20_PureFunction ==
    /\ n_qubits = N_QUBITS
    /\ state = InitialState(N_QUBITS)
    /\ \A t \in Threads :
          /\ workers[t].pc # "idle" => frames[FrameOf(t)].signal = workers[t].given
          /\ workers[t].pc \in {"returned", "raised"}
                => workers[t].ret = process_signal(workers[t].given)

C20_Witness ==
    /\ workers[1].pc = "returned"
    /\ workers[2].pc = "recognise"
    /\ Len(workers[1].given) = MaxConcurrentLen
    /\ workers[1].given # workers[2].given
    /\ workers[1].ret.raised = "none"
    /\ workers[1].ret.processed_signal.v = workers[1].given

\* C21: a call of apply_gate or entangle_qubits that fails raises out of that
\* same call (an index >= n_qubits always does, and the loops of apply_gate
\* raise exactly where the call is recorded as raised), and the state vector
\* is then what it was before the call: the operator built so far is not
\* applied.  (Whether the loops raise does not depend on the state: they are
\* run where the call is the first one on a fresh circuit.)
C21_FailureLeavesState ==
    /\ Failed => state = prev
    /\ (last.op # "init" /\ (last.target >= n_qubits \/ last.control >= n_qubits))
          => last.raised
    /\ (last.op = "apply_gate" /\ prev = InitialState(n_qubits)) =>
          apply_gate_loop(eye(Dim(n_qubits)), 0, n_qubits, AnyGate(last.gate),
                          last.target).raised = last.raised

C21_Witness ==
    /\ Failed
    /\ last.op = "apply_gate"
    /\ last.gate = "Phase"
    /\ prev # InitialState(n_qubits)
    /\ prev[0] # CZero
    /\ n_qubits = MaxQubits

\* the basis state with amplitude 1 at index idx
Basis(n, idx) == [i \in 0..(Dim(n) - 1) |-> IF i = idx THEN COne ELSE CZero]

\* weight of qubit q in the basis index: q is the q-th most significant bit
Weight(n, q) == Pow2(n - 1 - q)

\* C22: apply_gate and entangle_qubits share one convention, qubit k being the
\* k-th most significant bit of the basis index: on the fresh state
\* apply_gate(X, k) moves the amplitude 1 to index 2^(n_qubits-1-k), and
\* entangle_qubits(k, t) on that state moves it to
\* 2^(n_qubits-1-k) + 2^(n_qubits-1-t).
C22_BitConvention ==
    /\ (Returned("apply_gate") /\ last.gate = "X" /\ prev = InitialState(n_qubits))
          => state = Basis(n_qubits, Weight(n_qubits, last.target))
    /\ (/\ Returned("entangle_qubits")
        /\ last.control # last.target
        /\ prev = Basis(n_qubits, Weight(n_qubits, last.control)))
          => state = Basis(n_qubits, Weight(n_qubits, last.control)
                                       + Weight(n_qubits, last.target))

C22_Witness ==
    /\ Returned("entangle_qubits")
    /\ n_qubits = MaxQubits
    /\ last.control = n_qubits - 1
    /\ last.target = 0
    /\ prev = Basis(n_qubits, 1)
    /\ state = Basis(n_qubits, 1 + Pow2(n_qubits - 1))

\* C23: every QuantumIntelligenceAPI.process_signal call is reported to the
\* monitor exactly once, a call that returns as a request record with its
\* duration and the status success, a call that raises as a failure with its
\* duration, no record holding samples of the signal; get_metrics counts
\* every call in total_requests and its error_rate lies between 0 and 1.
C23_MonitorEveryCall ==
    LET metrics == get_metrics(monitor_requests, monitor_errors)
        records == {monitor_requests[i] : i \in 1..Len(monitor_requests)}
                   \cup {monitor_errors[i] : i \in 1..Len(monitor_errors)}
    IN  /\ Len(monitor_requests) + Len(monitor_errors) = metrics_requests
        /\ \A i \in 1..Len(monitor_requests) :
              /\ monitor_requests[i].status = "success"
              /\ monitor_requests[i].duration \in Durations
        /\ \A i \in 1..Len(monitor_errors) :
              "duration" \in DOMAIN monitor_errors[i]
        /\ \A r \in records :
              DOMAIN r \cap {"signal_data", "processed_signal", "features"} = {}
        /\ metrics.total_requests = metrics_requests
        /\ metrics.error_rate[1] >= 0
        /\ metrics.error_rate[1] <= metrics.error_rate[2]

\* C24: depth is metadata only: two circuits of the same n_qubits and of
\* different depths, driven by the same calls, have the same state vector
\* after every step, and no call changes the depth of either.
C24_DepthIsMetadata ==
    /\ [](twin.state = state)
    /\ [][depth' = depth /\ twin'.depth = twin.depth]_vars

C24_Witness ==
    /\ ncalls = MaxPairCalls
    /\ depth # twin.depth
    /\ Returned("entangle_qubits")
    /\ Superposed
    /\ state # prev
    /\ twin.state = state

\* the product of two dim x dim matrices
MatMul(a, b, dim) ==
    [i \in 0..(dim - 1) |-> [j \in 0..(dim - 1) |->
        DotFrom(a[i], [k \in 0..(dim - 1) |-> b[k][j]], 0, dim)]]

\* C25: single-qubit gates on different qubits commute: where apply_gate(G1, a)
\* has just returned, apply_gate(G2, b) with b # a gives the state that
\* apply_gate(G2, b) followed by apply_gate(G1, a) gives from the state before,
\* for all gates G1, G2 of {X, Y, Z, H}; and the operators of the two calls
\* commute as matrices.  (The operators do not depend on the state: they are
\* multiplied on a fresh circuit.)
C25_GatesCommute ==
    LET n == n_qubits
    IN  /\ Returned("apply_gate") =>
              \A b \in (0..(n - 1)) \ {last.target}, g2 \in GateNames :
                  apply_gate(n, state, Gate(g2), b)
                      = apply_gate(n, apply_gate(n, prev, Gate(g2), b),
                                   Gate(last.gate), last.target)
        /\ last.op = "init" =>
              \A a \in 0..(n - 1), b \in 0..(n - 1), g1 \in GateNames, g2 \in GateNames :
                  a < b =>
                      MatMul(apply_gate_full(n, Gate(g1), a),
                             apply_gate_full(n, Gate(g2), b), Dim(n))
                          = MatMul(apply_gate_full(n, Gate(g2), b),
                                   apply_gate_full(n, Gate(g1), a), Dim(n))

C25_Witness ==
    /\ Returned("apply_gate")
    /\ n_qubits = MaxQubits
    /\ last.gate = "H"
    /\ Superposed
    /\ state # prev
    /\ prev # InitialState(n_qubits)
    /\ \E b \in (0..(n_qubits - 1)) \ {last.target} :
          apply_gate(n_qubits, state, Y, b) # state

\* the latest call was entangle_qubits(q, q) with q in range
SelfEntangled ==
    /\ last.op = "entangle_qubits"
    /\ last.control = last.target
    /\ InRange(n_qubits, last.control)

\* C26: entangle_qubits(q, q) with q in range raises no error: it exchanges
\* the amplitudes of every two basis indices that differ in bit q only, which
\* is what apply_gate(X, q) does, and the sum of squared magnitudes stays as
\* it was.
C26_EntangleSelfIsX ==
    SelfEntangled =>
        /\ ~last.raised
        /\ \A i \in 0..(Dim(n_qubits) - 1) :
              state[i] = prev[Partner(i, n_qubits, last.target)]
        /\ state = apply_gate(n_qubits, prev, X, last.target)
        /\ NormSq(state, n_qubits) = NormSq(prev, n_qubits)

C26_Witness ==
    /\ SelfEntangled
    /\ n_qubits = MaxQubits
    /\ last.target = n_qubits - 1
    /\ Superposed
    /\ state # prev
    /\ prev # InitialState(n_qubits)

\* the instances get_api has returned, to any thread
Got == UNION {getters[t].got : t \in Threads}

\* C27: get_api constructs at most one QuantumIntelligenceAPI instance and
\* returns that one instance to every caller, whatever the interleaving of
\* the threads' first calls; a construction that fails leaves quantum_api
\* None (as long as no construction has succeeded, quantum_api is None).
C27_OneInstance ==
    /\ built <= 1
    /\ Cardinality(Got) <= 1
    /\ 0 \notin Got
    /\ built = 0 => quantum_api = 0

\* C28: decrypt_multi_layer on what encrypt_multi_layer(d) returned, on the
\* same instance, passes the authentication-tag check and returns exactly d,
\* whatever the random draws of the two calls.
C28_RoundTrip ==
    opened.called => (opened.raised = "none" /\ opened.data = sealed.data)

====
